---- MODULE Spec2Model ----
(***************************************************************************)
(* The Terran tech tree dependency resolver (bot/terran_tech_tree.py) and  *)
(* the helpers built on it (bot/example_tech_tree_usage.py).               *)
(*                                                                         *)
(* The program is a set of functions over one static dictionary.  The      *)
(* state of the model is the dictionary, the arguments a caller holds, the  *)
(* function called last and what that call returned or raised.  Every      *)
(* action is one whole call.                                               *)
(***************************************************************************)
EXTENDS Naturals, Sequences, FiniteSets, TLC

VARIABLES
    graph,                \* the dependency dictionary the functions read
    target,               \* the name the caller asks about
    current_buildings,    \* the structures the caller has (the helpers read the
                          \* list only through set() and 'in', so it is kept as a set)
    op,                   \* the function called last
    result,               \* what it returned, or the exception it raised
    answers,              \* history: what get_build_requirements answered first, per name
    walk,                 \* a call of get_build_requirements taken statement by statement
    progression,          \* the step-by-step loop of the third example
    bot,                  \* the fields of the TankBot object
    game                  \* what the game shows the bot: its structures

\* the state of the callers of the resolver
callVars == <<graph, target, current_buildings, op, result>>

\* the state of the other parts of the model
others == <<answers, walk, progression, bot, game>>

vars == <<graph, target, current_buildings, op, result,
          answers, walk, progression, bot, game>>

(***************************************************************************)
(* The shipped dictionary, entry by entry as declared.                     *)
(***************************************************************************)
TERRAN_TECH_TREE ==
       ("CommandCenter" :> [buildings |-> <<>>, units |-> <<>>])
    @@ ("SupplyDepot" :> [buildings |-> <<>>, units |-> <<>>])
    @@ ("Refinery" :> [buildings |-> <<>>, units |-> <<>>])
    @@ ("Barracks" :> [buildings |-> <<"SupplyDepot">>, units |-> <<>>])
    @@ ("OrbitalCommand" :> [buildings |-> <<"Barracks">>, units |-> <<>>])
    @@ ("PlanetaryFortress" :> [buildings |-> <<"EngineeringBay">>, units |-> <<>>])
    @@ ("EngineeringBay" :> [buildings |-> <<"CommandCenter">>, units |-> <<>>])
    @@ ("Bunker" :> [buildings |-> <<"Barracks">>, units |-> <<>>])
    @@ ("MissileTurret" :> [buildings |-> <<"EngineeringBay">>, units |-> <<>>])
    @@ ("SensorTower" :> [buildings |-> <<"EngineeringBay">>, units |-> <<>>])
    @@ ("GhostAcademy" :> [buildings |-> <<"Barracks">>, units |-> <<>>])
    @@ ("Factory" :> [buildings |-> <<"Barracks">>, units |-> <<>>])
    @@ ("Armory" :> [buildings |-> <<"Factory">>, units |-> <<>>])
    @@ ("Starport" :> [buildings |-> <<"Factory">>, units |-> <<>>])
    @@ ("FusionCore" :> [buildings |-> <<"Starport">>, units |-> <<>>])
    @@ ("BarracksTechLab" :> [buildings |-> <<"Barracks">>, units |-> <<>>])
    @@ ("BarracksReactor" :> [buildings |-> <<"Barracks">>, units |-> <<>>])
    @@ ("FactoryTechLab" :> [buildings |-> <<"Factory">>, units |-> <<>>])
    @@ ("FactoryReactor" :> [buildings |-> <<"Factory">>, units |-> <<>>])
    @@ ("StarportTechLab" :> [buildings |-> <<"Starport">>, units |-> <<>>])
    @@ ("StarportReactor" :> [buildings |-> <<"Starport">>, units |-> <<>>])
    @@ ("SCV" :> [buildings |-> <<"CommandCenter">>, units |-> <<>>])
    @@ ("MULE" :> [buildings |-> <<"OrbitalCommand">>, units |-> <<>>])
    @@ ("Marine" :> [buildings |-> <<"Barracks">>, units |-> <<>>])
    @@ ("Reaper" :> [buildings |-> <<"Barracks">>, units |-> <<>>])
    @@ ("Marauder" :> [buildings |-> <<"Barracks", "BarracksTechLab">>, units |-> <<>>])
    @@ ("Ghost" :> [buildings |-> <<"Barracks", "BarracksTechLab", "GhostAcademy">>, units |-> <<>>])
    @@ ("Hellion" :> [buildings |-> <<"Factory">>, units |-> <<>>])
    @@ ("Hellbat" :> [buildings |-> <<"Factory", "Armory">>, units |-> <<>>])
    @@ ("WidowMine" :> [buildings |-> <<"Factory">>, units |-> <<>>])
    @@ ("Cyclone" :> [buildings |-> <<"Factory", "FactoryTechLab">>, units |-> <<>>])
    @@ ("SiegeTank" :> [buildings |-> <<"Factory", "FactoryTechLab">>, units |-> <<>>])
    @@ ("Thor" :> [buildings |-> <<"Factory", "FactoryTechLab", "Armory">>, units |-> <<>>])
    @@ ("Viking" :> [buildings |-> <<"Starport">>, units |-> <<>>])
    @@ ("Medivac" :> [buildings |-> <<"Starport">>, units |-> <<>>])
    @@ ("Liberator" :> [buildings |-> <<"Starport">>, units |-> <<>>])
    @@ ("Banshee" :> [buildings |-> <<"Starport", "StarportTechLab">>, units |-> <<>>])
    @@ ("Raven" :> [buildings |-> <<"Starport", "StarportTechLab">>, units |-> <<>>])
    @@ ("Battlecruiser" :> [buildings |-> <<"Starport", "StarportTechLab", "FusionCore">>, units |-> <<>>])
    @@ ("AutoTurret" :> [buildings |-> <<"Starport", "StarportTechLab">>, units |-> <<"Raven">>])

(***************************************************************************)
(* Python compares strings code point by code point.  CodePoints spells    *)
(* every entity name of the model, so that sorted() can be computed.       *)
(***************************************************************************)
CodePoints ==
       ("CommandCenter" :> <<67, 111, 109, 109, 97, 110, 100, 67, 101, 110, 116, 101, 114>>)
    @@ ("SupplyDepot" :> <<83, 117, 112, 112, 108, 121, 68, 101, 112, 111, 116>>)
    @@ ("Refinery" :> <<82, 101, 102, 105, 110, 101, 114, 121>>)
    @@ ("Barracks" :> <<66, 97, 114, 114, 97, 99, 107, 115>>)
    @@ ("OrbitalCommand" :> <<79, 114, 98, 105, 116, 97, 108, 67, 111, 109, 109, 97, 110, 100>>)
    @@ ("PlanetaryFortress" :> <<80, 108, 97, 110, 101, 116, 97, 114, 121, 70, 111, 114, 116, 114, 101, 115, 115>>)
    @@ ("EngineeringBay" :> <<69, 110, 103, 105, 110, 101, 101, 114, 105, 110, 103, 66, 97, 121>>)
    @@ ("Bunker" :> <<66, 117, 110, 107, 101, 114>>)
    @@ ("MissileTurret" :> <<77, 105, 115, 115, 105, 108, 101, 84, 117, 114, 114, 101, 116>>)
    @@ ("SensorTower" :> <<83, 101, 110, 115, 111, 114, 84, 111, 119, 101, 114>>)
    @@ ("GhostAcademy" :> <<71, 104, 111, 115, 116, 65, 99, 97, 100, 101, 109, 121>>)
    @@ ("Factory" :> <<70, 97, 99, 116, 111, 114, 121>>)
    @@ ("Armory" :> <<65, 114, 109, 111, 114, 121>>)
    @@ ("Starport" :> <<83, 116, 97, 114, 112, 111, 114, 116>>)
    @@ ("FusionCore" :> <<70, 117, 115, 105, 111, 110, 67, 111, 114, 101>>)
    @@ ("BarracksTechLab" :> <<66, 97, 114, 114, 97, 99, 107, 115, 84, 101, 99, 104, 76, 97, 98>>)
    @@ ("BarracksReactor" :> <<66, 97, 114, 114, 97, 99, 107, 115, 82, 101, 97, 99, 116, 111, 114>>)
    @@ ("FactoryTechLab" :> <<70, 97, 99, 116, 111, 114, 121, 84, 101, 99, 104, 76, 97, 98>>)
    @@ ("FactoryReactor" :> <<70, 97, 99, 116, 111, 114, 121, 82, 101, 97, 99, 116, 111, 114>>)
    @@ ("StarportTechLab" :> <<83, 116, 97, 114, 112, 111, 114, 116, 84, 101, 99, 104, 76, 97, 98>>)
    @@ ("StarportReactor" :> <<83, 116, 97, 114, 112, 111, 114, 116, 82, 101, 97, 99, 116, 111, 114>>)
    @@ ("SCV" :> <<83, 67, 86>>)
    @@ ("MULE" :> <<77, 85, 76, 69>>)
    @@ ("Marine" :> <<77, 97, 114, 105, 110, 101>>)
    @@ ("Reaper" :> <<82, 101, 97, 112, 101, 114>>)
    @@ ("Marauder" :> <<77, 97, 114, 97, 117, 100, 101, 114>>)
    @@ ("Ghost" :> <<71, 104, 111, 115, 116>>)
    @@ ("Hellion" :> <<72, 101, 108, 108, 105, 111, 110>>)
    @@ ("Hellbat" :> <<72, 101, 108, 108, 98, 97, 116>>)
    @@ ("WidowMine" :> <<87, 105, 100, 111, 119, 77, 105, 110, 101>>)
    @@ ("Cyclone" :> <<67, 121, 99, 108, 111, 110, 101>>)
    @@ ("SiegeTank" :> <<83, 105, 101, 103, 101, 84, 97, 110, 107>>)
    @@ ("Thor" :> <<84, 104, 111, 114>>)
    @@ ("Viking" :> <<86, 105, 107, 105, 110, 103>>)
    @@ ("Medivac" :> <<77, 101, 100, 105, 118, 97, 99>>)
    @@ ("Liberator" :> <<76, 105, 98, 101, 114, 97, 116, 111, 114>>)
    @@ ("Banshee" :> <<66, 97, 110, 115, 104, 101, 101>>)
    @@ ("Raven" :> <<82, 97, 118, 101, 110>>)
    @@ ("Battlecruiser" :> <<66, 97, 116, 116, 108, 101, 99, 114, 117, 105, 115, 101, 114>>)
    @@ ("AutoTurret" :> <<65, 117, 116, 111, 84, 117, 114, 114, 101, 116>>)
    @@ ("S" :> <<83>>)
    @@ ("A" :> <<65>>)
    @@ ("B" :> <<66>>)
    @@ ("C" :> <<67>>)

(***************************************************************************)
(* Bounds of the model.                                                    *)
(***************************************************************************)
\* longest list of structure prerequisites of an entity of a synthetic dictionary
MaxDeps == 2
\* longest list of unit prerequisites of an entity of a synthetic dictionary
MaxUnitDeps == 1

\* a name that is a key of no dictionary of the model
UnknownName == "UnknownThing"

\* Python's None (no entity is called so)
None == "None"

(***************************************************************************)
(* Sequences and strings.                                                  *)
(***************************************************************************)
Range(s) == {s[i] : i \in 1..Len(s)}

\* x in list
InList(x, list) == \E i \in 1..Len(list) : list[i] = x

\* str.__lt__: the first differing code point decides, a proper prefix is less
CodePointsLess(x, y) ==
    \E i \in 1..(Len(x) + 1) :
        /\ i <= Len(y)
        /\ \A j \in 1..(i - 1) : x[j] = y[j]
        /\ (i = Len(x) + 1 \/ x[i] < y[i])

\* the comparison of every two names of the model, computed once
LessTable ==
    [a \in DOMAIN CodePoints |->
        {b \in DOMAIN CodePoints : CodePointsLess(CodePoints[a], CodePoints[b])}]

StrLess(a, b) == b \in LessTable[a]

\* Rank with the comparison turned round: the place in the descending order
RankDescending(S, x) == Cardinality({y \in S : StrLess(x, y)}) + 1

\* the place of x among the distinct strings S in ascending order
Rank(S, x) == Cardinality({y \in S : StrLess(y, x)}) + 1

\* sorted(iterable) of distinct strings
sorted(S) ==
    LET place == {<<Rank(S, x), x>> : x \in S}
    IN  [i \in 1..Cardinality(S) |-> (CHOOSE p \in place : p[1] = i)[2]]

(***************************************************************************)
(* terran_tech_tree.get_build_requirements                                 *)
(***************************************************************************)
\* NewLocals that picks up what the previous call left behind
LeftoverLocals ==
    [visited |-> walk.visited, all_buildings |-> walk.all_buildings,
     all_units |-> walk.all_units]

\* the three locals the nested function closes over
NewLocals == [visited |-> {}, all_buildings |-> <<>>, all_units |-> <<>>]

\* AppendIfAbsent without the membership test
AppendAlways(list, x) == Append(list, x)

\* if x not in list: list.append(x)
AppendIfAbsent(list, x) == IF InList(x, list) THEN list ELSE Append(list, x)

RECURSIVE resolve_dependencies(_, _, _)
RECURSIVE BuildingLoop(_, _, _, _)
RECURSIVE UnitLoop(_, _, _, _)

\* BuildingStep that appends the structure before it resolves it
BuildingStepAppendFirst(g, building, st) ==
    resolve_dependencies(g, building,
        [st EXCEPT !.all_buildings = AppendIfAbsent(@, building)])

\* BuildingStep that leaves out a name that is no key
BuildingStepSkipUnknown(g, building, st) ==
    IF building \notin DOMAIN g THEN st
    ELSE LET after == resolve_dependencies(g, building, st)
         IN  [after EXCEPT !.all_buildings = AppendIfAbsent(@, building)]

\* body of "for building in requirements['buildings']"
BuildingStep(g, building, st) ==
    LET after == resolve_dependencies(g, building, st)
    IN  [after EXCEPT !.all_buildings = AppendIfAbsent(@, building)]

\* UnitStep that appends the unit before it resolves it
UnitStepAppendFirst(g, unit, st) ==
    resolve_dependencies(g, unit,
        [st EXCEPT !.all_units = AppendIfAbsent(@, unit)])

\* UnitStep that does not resolve the unit's own prerequisites
UnitStepNoExpansion(g, unit, st) ==
    [st EXCEPT !.all_units = AppendIfAbsent(@, unit)]

\* body of "for unit in requirements['units']"
UnitStep(g, unit, st) ==
    LET after == resolve_dependencies(g, unit, st)
    IN  [after EXCEPT !.all_units = AppendIfAbsent(@, unit)]

BuildingLoop(g, reqs, i, st) ==
    IF i > Len(reqs) THEN st
    ELSE BuildingLoop(g, reqs, i + 1, BuildingStep(g, reqs[i], st))

UnitLoop(g, reqs, i, st) ==
    IF i > Len(reqs) THEN st
    ELSE UnitLoop(g, reqs, i + 1, UnitStep(g, reqs[i], st))

resolve_dependencies(g, name, st) ==
    IF name \in st.visited THEN st
    ELSE LET marked == [st EXCEPT !.visited = @ \cup {name}]
         IN  IF name \notin DOMAIN g THEN marked
             ELSE UnitLoop(g, g[name].units, 1,
                           BuildingLoop(g, g[name].buildings, 1, marked))

\* KeyError(f"Unit '{unit_name}' not found ... Available units: {sorted(keys)}")
KeyError(g, unit_name) ==
    [status |-> "KeyError", name |-> unit_name, available |-> sorted(DOMAIN g)]

\* immediate_requirements taken from the resolved lists
immediate_requirementsExpanded(g, unit_name) ==
    LET done == resolve_dependencies(g, unit_name, NewLocals)
    IN  [buildings |-> done.all_buildings, units |-> done.all_units]

\* immediate_requirements = TERRAN_TECH_TREE[unit_name]
immediate_requirements(g, unit_name) ==
    [buildings |-> g[unit_name].buildings, units |-> g[unit_name].units]

get_build_requirements(g, unit_name) ==
    IF unit_name \notin DOMAIN g THEN KeyError(g, unit_name)
    ELSE LET done == resolve_dependencies(g, unit_name, NewLocals)
         IN  [status    |-> "ok",
              buildings |-> done.all_buildings,
              units     |-> done.all_units,
              immediate |-> immediate_requirements(g, unit_name)]

\* terran_tech_tree.get_all_terran_units
get_all_terran_units(g) == sorted(DOMAIN g)

(***************************************************************************)
(* example_tech_tree_usage                                                 *)
(***************************************************************************)
\* f"Unknown unit: {unit_name}"
UnknownUnit(unit_name) == <<"Unknown unit: ", unit_name>>

\* can_build_unit that returns the missing structures in resolver order
can_build_unitUnsorted(g, unit_name, available_buildings) ==
    LET requirements == get_build_requirements(g, unit_name)
    IN  IF requirements.status = "KeyError"
        THEN [status |-> "ok", can_build |-> FALSE,
              missing |-> <<UnknownUnit(unit_name)>>]
        ELSE LET missing == SelectSeq(requirements.buildings,
                                LAMBDA b : b \notin available_buildings)
             IN  [status |-> "ok", can_build |-> (Len(missing) = 0),
                  missing |-> missing]

\* can_build_unit without the except clause
can_build_unitNoExcept(g, unit_name, available_buildings) ==
    LET requirements == get_build_requirements(g, unit_name)
    IN  IF requirements.status = "KeyError" THEN requirements
        ELSE LET missing == Range(requirements.buildings) \ available_buildings
             IN  [status |-> "ok", can_build |-> (Cardinality(missing) = 0),
                  missing |-> sorted(missing)]

can_build_unit(g, unit_name, available_buildings) ==
    LET requirements == get_build_requirements(g, unit_name)
    IN  IF requirements.status = "KeyError"
        THEN [status |-> "ok", can_build |-> FALSE,
              missing |-> <<UnknownUnit(unit_name)>>]
        ELSE LET required_buildings == Range(requirements.buildings)
                 missing == required_buildings \ available_buildings
             IN  [status |-> "ok", can_build |-> (Cardinality(missing) = 0),
                  missing |-> sorted(missing)]

\* FirstNotAvailable that walks the build order from its end
RECURSIVE LastNotAvailableFrom(_, _, _)
LastNotAvailableFrom(build_order, i, available_buildings) ==
    IF i < 1 THEN None
    ELSE IF build_order[i] \notin available_buildings THEN build_order[i]
    ELSE LastNotAvailableFrom(build_order, i - 1, available_buildings)

LastNotAvailable(build_order, i, available_buildings) ==
    LastNotAvailableFrom(build_order, Len(build_order), available_buildings)

\* for building in build_order: if building not in available_buildings: return building
RECURSIVE FirstNotAvailable(_, _, _)
FirstNotAvailable(build_order, i, available_buildings) ==
    IF i > Len(build_order) THEN None
    ELSE IF build_order[i] \notin available_buildings THEN build_order[i]
    ELSE FirstNotAvailable(build_order, i + 1, available_buildings)

\* get_next_building_to_build that returns the first of the sorted missing list
get_next_building_to_buildFirstSorted(g, target_unit, available_buildings) ==
    LET checked == can_build_unit(g, target_unit, available_buildings)
    IN  IF checked.can_build THEN [status |-> "ok", value |-> None]
        ELSE IF Len(checked.missing) = 0 THEN [status |-> "ok", value |-> None]
        ELSE LET requirements == get_build_requirements(g, target_unit)
             IN  IF requirements.status = "KeyError" THEN requirements
                 ELSE [status |-> "ok", value |-> checked.missing[1]]

get_next_building_to_build(g, target_unit, available_buildings) ==
    LET checked == can_build_unit(g, target_unit, available_buildings)
    IN  IF checked.can_build THEN [status |-> "ok", value |-> None]
        ELSE IF Len(checked.missing) = 0 THEN [status |-> "ok", value |-> None]
        ELSE LET requirements == get_build_requirements(g, target_unit)
             IN  IF requirements.status = "KeyError" THEN requirements
                 ELSE [status |-> "ok",
                       value |-> FirstNotAvailable(requirements.buildings, 1,
                                                   available_buildings)]

get_tech_path(g, start_buildings, target_unit) ==
    LET requirements == get_build_requirements(g, target_unit)
    IN  IF requirements.status = "KeyError" THEN requirements
        ELSE [status |-> "ok",
              value |-> SelectSeq(requirements.buildings,
                                  LAMBDA building : building \notin start_buildings)]

(***************************************************************************)
(* Inputs.                                                                 *)
(***************************************************************************)
\* the names a caller asks about: every key, and one name that is no key
QueryNames(g) == DOMAIN g \cup {UnknownName}

\* the structures a caller may have: those the example callers start from
\* and those the step-by-step example builds on the way to a Thor
CallerBuildings ==
    {"CommandCenter", "SupplyDepot", "Barracks", "Factory", "Starport",
     "FactoryTechLab", "Armory"}

\* the sequences without repetition of at most n elements of S
RECURSIVE SeqsUpTo(_, _)
SeqsUpTo(S, n) ==
    IF n = 0 THEN {<<>>}
    ELSE LET shorter == SeqsUpTo(S, n - 1)
         IN  shorter \cup {Append(s, x) : s \in shorter, x \in S}

(***************************************************************************)
(* Synthetic dictionaries: every dictionary over four names whose entries  *)
(* list only names that come earlier in SynNames, each name at most once   *)
(* in a list.  They are acyclic and have no dangling reference, and every  *)
(* such dictionary over four names is one of them up to renaming (the      *)
(* resolver only compares names for equality).                             *)
(***************************************************************************)
SynNames == <<"S", "A", "B", "C">>

Earlier(i) == {SynNames[j] : j \in 1..(i - 1)}

NoRepeat(s) == \A i, j \in 1..Len(s) : s[i] = s[j] => i = j

EntryChoices(i) ==
    [buildings : {s \in SeqsUpTo(Earlier(i), MaxDeps) : NoRepeat(s)},
     units     : {s \in SeqsUpTo(Earlier(i), MaxUnitDeps) : NoRepeat(s)}]

SynGraphs ==
    {(SynNames[1] :> e1) @@ (SynNames[2] :> e2) @@ (SynNames[3] :> e3)
        @@ (SynNames[4] :> e4) :
        e1 \in EntryChoices(1), e2 \in EntryChoices(2),
        e3 \in EntryChoices(3), e4 \in EntryChoices(4)}

(***************************************************************************)
(* The calls.  A caller holds a target name and its available structures   *)
(* and calls the functions on them, in any order and any number of times.  *)
(***************************************************************************)
\* the parts of the model a specification does not use stay as they are here
NoAnswers == [n \in {} |-> None]

WalkIdle ==
    [pc |-> "idle", stack |-> <<>>, visited |-> {}, all_buildings |-> <<>>,
     all_units |-> <<>>, started |-> <<>>]

ProgressionIdle == [pc |-> "idle", step |-> 1, start |-> {}, built |-> <<>>]

BotIdle ==
    [current_build_phase |-> "none", marines_ready |-> FALSE,
     tanks_ready |-> FALSE, vikings_ready |-> FALSE, registered |-> {}]

GameIdle == [ready |-> {}, pending |-> {}]

OthersIdle ==
    /\ answers = NoAnswers
    /\ walk = WalkIdle
    /\ progression = ProgressionIdle
    /\ bot = BotIdle
    /\ game = GameIdle

Init ==
    /\ graph = TERRAN_TECH_TREE
    /\ target \in QueryNames(graph)
    /\ current_buildings \in SUBSET CallerBuildings
    /\ op = "none"
    /\ result = [status |-> "none"]
    /\ OthersIdle

\* the resolver alone, on the shipped dictionary and on the synthetic ones
InitGraphs ==
    /\ graph \in {TERRAN_TECH_TREE} \cup SynGraphs
    /\ target \in QueryNames(graph)
    /\ current_buildings = {}
    /\ op = "none"
    /\ result = [status |-> "none"]
    /\ OthersIdle

GetBuildRequirements ==
    /\ op' = "get_build_requirements"
    /\ result' = get_build_requirements(graph, target)
    /\ UNCHANGED <<graph, target, current_buildings>>
    /\ UNCHANGED others

GetAllTerranUnits ==
    /\ op' = "get_all_terran_units"
    /\ result' = [status |-> "ok", value |-> get_all_terran_units(graph)]
    /\ UNCHANGED <<graph, target, current_buildings>>
    /\ UNCHANGED others

CanBuildUnit ==
    /\ op' = "can_build_unit"
    /\ result' = can_build_unit(graph, target, current_buildings)
    /\ UNCHANGED <<graph, target, current_buildings>>
    /\ UNCHANGED others

GetNextBuildingToBuild ==
    /\ op' = "get_next_building_to_build"
    /\ result' = get_next_building_to_build(graph, target, current_buildings)
    /\ UNCHANGED <<graph, target, current_buildings>>
    /\ UNCHANGED others

GetTechPath ==
    /\ op' = "get_tech_path"
    /\ result' = get_tech_path(graph, current_buildings, target)
    /\ UNCHANGED <<graph, target, current_buildings>>
    /\ UNCHANGED others

Next ==
    \/ GetBuildRequirements
    \/ GetAllTerranUnits
    \/ CanBuildUnit
    \/ GetNextBuildingToBuild
    \/ GetTechPath

Spec == Init /\ [][Next]_vars

NextResolve ==
    \/ GetBuildRequirements
    \/ GetAllTerranUnits

SpecGraphs == InitGraphs /\ [][NextResolve]_vars

(***************************************************************************)
(* Properties.                                                             *)
(***************************************************************************)
Returned(f) == op = f /\ result.status = "ok"

Defined == target \in DOMAIN graph

\* ascending in Python's string order, hence without duplicates
StrictlyAscending(s) == \A i \in 1..(Len(s) - 1) : StrLess(s[i], s[i + 1])

\* how often x occurs in s
Count(x, s) == Cardinality({i \in 1..Len(s) : s[i] = x})

\* the direct prerequisites of a name, of either kind
Direct(g, n) ==
    IF n \in DOMAIN g THEN Range(g[n].buildings) \cup Range(g[n].units) ELSE {}

\* the names reachable from the names of S by zero or more prerequisite edges
RECURSIVE Closure(_, _)
Closure(g, S) ==
    LET grown == S \cup UNION {Direct(g, n) : n \in S}
    IN  IF grown = S THEN S ELSE Closure(g, grown)

\* no entity requires itself, directly or transitively
Acyclic(g) == \A n \in DOMAIN g : n \notin Closure(g, Direct(g, n))

\* every name in a prerequisite list is a key
NoDangling(g) == \A n \in DOMAIN g : Direct(g, n) \subseteq DOMAIN g

\* C1: get_build_requirements with a name that is no key raises KeyError and
\* returns nothing; the error carries the name and every key of the
\* dictionary in ascending order, the sequence get_all_terran_units returns.
C1_UnknownNameRaises ==
    (op = "get_build_requirements" /\ ~Defined) =>
        /\ result.status = "KeyError"
        /\ DOMAIN result = {"status", "name", "available"}
        /\ result.name = target
        /\ Range(result.available) = DOMAIN graph
        /\ StrictlyAscending(result.available)
        /\ result.available = get_all_terran_units(graph)

C1_Witness ==
    /\ op = "get_build_requirements"
    /\ target = UnknownName
    /\ result.status = "KeyError"
    /\ Len(result.available) = Cardinality(DOMAIN TERRAN_TECH_TREE)

\* C2: on the shipped dictionary the structures of a Battlecruiser are, in
\* order, SupplyDepot, Barracks, Factory, Starport, StarportTechLab, FusionCore.
C2_BattlecruiserOrder ==
    (op = "get_build_requirements" /\ graph = TERRAN_TECH_TREE
        /\ target = "Battlecruiser") =>
        /\ result.status = "ok"
        /\ result.buildings = <<"SupplyDepot", "Barracks", "Factory", "Starport",
                                "StarportTechLab", "FusionCore">>

C2_Witness ==
    /\ Returned("get_build_requirements")
    /\ graph = TERRAN_TECH_TREE
    /\ target = "Battlecruiser"
    /\ Len(result.buildings) = 6

\* a and b both directly require structure s, and c requires both a and b
Diamond(g, s, a, b, c) ==
    /\ a # b /\ {a, b, c} \subseteq DOMAIN g
    /\ s \in Range(g[a].buildings) /\ s \in Range(g[b].buildings)
    /\ {a, b} \subseteq Direct(g, c)

\* C3: no name occurs twice in the resolved structures or in the resolved
\* units; a structure at the bottom of a diamond occurs exactly once.
C3_Deduplicated ==
    Returned("get_build_requirements") =>
        /\ \A x \in Range(result.buildings) : Count(x, result.buildings) = 1
        /\ \A x \in Range(result.units) : Count(x, result.units) = 1
        /\ \A s, a, b \in DOMAIN graph :
               Diamond(graph, s, a, b, target) => Count(s, result.buildings) = 1

C3_Witness ==
    /\ Returned("get_build_requirements")
    /\ target = "C"
    /\ Diamond(graph, "S", "A", "B", "C")
    /\ {"A", "B"} \subseteq Range(graph["C"].buildings)
    /\ Count("S", result.buildings) = 1

\* C4: on an acyclic dictionary without dangling references, every direct
\* structure prerequisite of a resolved structure stands before it in the
\* resolved structures, and every direct unit prerequisite of a resolved
\* unit stands before it in the resolved units.
C4_TopologicalOrder ==
    (Returned("get_build_requirements") /\ Acyclic(graph) /\ NoDangling(graph)) =>
        /\ \A i \in 1..Len(result.buildings) :
               \A p \in Range(graph[result.buildings[i]].buildings) :
                   \E j \in 1..(i - 1) : result.buildings[j] = p
        /\ \A i \in 1..Len(result.units) :
               \A p \in Range(graph[result.units[i]].units) :
                   \E j \in 1..(i - 1) : result.units[j] = p

C4_Witness ==
    /\ Returned("get_build_requirements")
    /\ Acyclic(graph) /\ NoDangling(graph)
    /\ Len(result.buildings) = 3
    /\ Len(result.units) = 2
    /\ graph[result.units[2]].units = <<result.units[1]>>
    /\ graph[result.buildings[3]].buildings = <<result.buildings[2], result.buildings[1]>>

\* the names at the end of a chain of prerequisite edges from n
Reachable(g, n) == Closure(g, Direct(g, n))

\* the names reached from n by a chain whose last edge is a structure edge
ReachedAsBuilding(g, n) ==
    UNION {Range(g[m].buildings) : m \in (Closure(g, {n}) \cap DOMAIN g)}

\* the names reached from n by a chain whose last edge is a unit edge
ReachedAsUnit(g, n) ==
    UNION {Range(g[m].units) : m \in (Closure(g, {n}) \cap DOMAIN g)}

\* C5: the resolved structures are exactly the names reached by a chain of
\* prerequisite edges that ends with a structure edge, the resolved units
\* exactly those reached by a chain that ends with a unit edge; the entity
\* itself is in neither, and the units of an AutoTurret contain Raven.
C5_ExactlyTheReachable ==
    Returned("get_build_requirements") =>
        /\ Range(result.buildings) = ReachedAsBuilding(graph, target)
        /\ Range(result.units) = ReachedAsUnit(graph, target)
        /\ target \notin Range(result.buildings) \cup Range(result.units)
        /\ (graph = TERRAN_TECH_TREE /\ target = "AutoTurret") =>
               InList("Raven", result.units)

C5_Witness ==
    /\ Returned("get_build_requirements")
    /\ graph = TERRAN_TECH_TREE
    /\ target = "AutoTurret"
    /\ result.units = <<"Raven">>

\* C6: the immediate requirements are the entity's own declared lists, in
\* the declared order and without expansion.
C6_ImmediateAsDeclared ==
    Returned("get_build_requirements") =>
        /\ result.immediate.buildings = graph[target].buildings
        /\ result.immediate.units = graph[target].units

C6_Witness ==
    /\ Returned("get_build_requirements")
    /\ target = "Ghost"
    /\ result.immediate.buildings = <<"Barracks", "BarracksTechLab", "GhostAcademy">>
    /\ result.buildings # result.immediate.buildings

\* C7: for a defined target, can_build_unit returns as missing the resolved
\* structures that are not available, ascending and without duplicates, and
\* can_build is true exactly when nothing is missing.
C7_MissingSorted ==
    (op = "can_build_unit" /\ Defined) =>
        LET required == Range(get_build_requirements(graph, target).buildings)
        IN  /\ result.status = "ok"
            /\ Range(result.missing) = required \ current_buildings
            /\ StrictlyAscending(result.missing)
            /\ result.can_build = (result.missing = <<>>)
            /\ (target = "Marine" /\ current_buildings = {"CommandCenter"}) =>
                   /\ result.can_build = FALSE
                   /\ result.missing = <<"Barracks", "SupplyDepot">>
            /\ (target = "Marine"
                /\ current_buildings = {"CommandCenter", "SupplyDepot", "Barracks"}) =>
                   /\ result.can_build = TRUE
                   /\ result.missing = <<>>

C7_Witness ==
    /\ Returned("can_build_unit")
    /\ target = "Marine"
    /\ current_buildings = {"CommandCenter"}
    /\ result.missing = <<"Barracks", "SupplyDepot">>

\* C8: for a target that is no key, can_build_unit raises nothing: it returns
\* can_build false and one explanatory entry that names the target.
C8_UnknownTargetSoft ==
    (op = "can_build_unit" /\ ~Defined) =>
        /\ result.status = "ok"
        /\ result.can_build = FALSE
        /\ Len(result.missing) = 1
        /\ result.missing[1] = <<"Unknown unit: ", target>>

C8_Witness ==
    /\ Returned("can_build_unit")
    /\ target = UnknownName
    /\ current_buildings = {"CommandCenter", "SupplyDepot", "Barracks"}
    /\ result.can_build = FALSE

\* C9: for a defined target, get_next_building_to_build returns the resolved
\* structure of smallest index that is not available, and None exactly when
\* every resolved structure is available, which is when can_build_unit
\* says the target can be built.
C9_FirstMissingInOrder ==
    (op = "get_next_building_to_build" /\ Defined) =>
        LET order == get_build_requirements(graph, target).buildings
            absent == {i \in 1..Len(order) : order[i] \notin current_buildings}
        IN  /\ result.status = "ok"
            /\ absent # {} =>
                   /\ result.value # None
                   /\ \E i \in absent :
                          /\ result.value = order[i]
                          /\ \A j \in absent : i <= j
            /\ absent = {} => result.value = None
            /\ (result.value = None) =
                   can_build_unit(graph, target, current_buildings).can_build

C9_Witness ==
    /\ Returned("get_next_building_to_build")
    /\ target = "Thor"
    /\ current_buildings = {"CommandCenter", "Barracks"}
    /\ result.value = "SupplyDepot"

\* C10: for a target that is no key, get_next_building_to_build does not
\* pass the KeyError on to its caller: it returns None or a name.
C10_NextNeverRaises ==
    (op = "get_next_building_to_build" /\ ~Defined) => result.status = "ok"

(***************************************************************************)
(* Sequences of calls.  The caller goes from one name to the next, as the  *)
(* loop of the fourth example does, and calls the functions on each; the   *)
(* history records what get_build_requirements answered first for a name   *)
(* and whether it was asked again.                                         *)
(***************************************************************************)
AskedNames == {"Marine", "Battlecruiser", "AutoTurret", UnknownName}

\* current_buildings of the first and of the fourth example
ExampleBuildings ==
    {{"SupplyDepot", "Barracks", "CommandCenter"},
     {"SupplyDepot", "Barracks", "Factory", "Starport", "CommandCenter"}}

InitCalls ==
    /\ graph = TERRAN_TECH_TREE
    /\ target \in AskedNames
    /\ current_buildings \in ExampleBuildings
    /\ op = "none"
    /\ result = [status |-> "none"]
    /\ OthersIdle

\* for unit in units_to_check: the caller takes the next name
Ask ==
    \E n \in AskedNames \ {target} :
        /\ target' = n
        /\ op' = "none"
        /\ result' = [status |-> "none"]
        /\ UNCHANGED <<graph, current_buildings>>
        /\ UNCHANGED others

\* the locals of a call when it returns; a call that raises has made none
LocalsAtReturn(g, unit_name, before) ==
    IF unit_name \notin DOMAIN g THEN before
    ELSE LET done == resolve_dependencies(g, unit_name, NewLocals)
         IN  [before EXCEPT !.pc = "done", !.visited = done.visited,
                            !.all_buildings = done.all_buildings,
                            !.all_units = done.all_units]

\* get_build_requirements, with the history kept
GetBuildRequirementsLogged ==
    /\ op' = "get_build_requirements"
    /\ result' = get_build_requirements(graph, target)
    /\ walk' = LocalsAtReturn(graph, target, walk)
    /\ answers' = IF target \in DOMAIN answers
                  THEN [answers EXCEPT ![target].again = TRUE]
                  ELSE answers @@ (target :> [first |-> result', again |-> FALSE])
    /\ UNCHANGED <<graph, target, current_buildings, progression, bot, game>>

NextCalls ==
    \/ Ask
    \/ GetBuildRequirementsLogged
    \/ CanBuildUnit
    \/ GetNextBuildingToBuild
    \/ GetTechPath

SpecCalls == InitCalls /\ [][NextCalls]_vars

\* C11: no call changes the dictionary, and get_build_requirements returns
\* for a name what it returned for it the first time, whatever calls were
\* made in between (nothing is carried from one call to the next).
C11_PureAndRepeatable ==
    /\ [][graph' = graph]_vars
    /\ [](op = "get_build_requirements" =>
            /\ target \in DOMAIN answers
            /\ result = answers[target].first)

C11_Witness ==
    /\ op = "get_build_requirements"
    /\ target = "Marine"
    /\ answers["Marine"].again
    /\ DOMAIN answers = AskedNames
    /\ answers[UnknownName].first.status = "KeyError"
    /\ result.buildings = <<"SupplyDepot", "Barracks">>
    /\ graph = TERRAN_TECH_TREE

(***************************************************************************)
(* Dictionaries with a dangling reference: the synthetic dictionaries over *)
(* three names whose lists may also hold DanglingName, which is no key.    *)
(***************************************************************************)
DanglingName == "D"

DanglingChoices(i) ==
    [buildings : {s \in SeqsUpTo(Earlier(i) \cup {DanglingName}, MaxDeps) : NoRepeat(s)},
     units     : {s \in SeqsUpTo(Earlier(i) \cup {DanglingName}, MaxUnitDeps) : NoRepeat(s)}]

DanglingGraphs ==
    {(SynNames[1] :> e1) @@ (SynNames[2] :> e2) @@ (SynNames[3] :> e3) :
        e1 \in DanglingChoices(1), e2 \in DanglingChoices(2),
        e3 \in DanglingChoices(3)}

InitDangling ==
    /\ graph \in DanglingGraphs
    /\ target \in QueryNames(graph)
    /\ current_buildings = {}
    /\ op = "none"
    /\ result = [status |-> "none"]
    /\ OthersIdle

SpecDangling == InitDangling /\ [][NextResolve]_vars

\* the dictionary with every dangling name entered as an entity without prerequisites
Completed(g) ==
    [n \in DOMAIN g \cup UNION {Direct(g, m) : m \in DOMAIN g} |->
        IF n \in DOMAIN g THEN g[n] ELSE [buildings |-> <<>>, units |-> <<>>]]

\* C12: a prerequisite name that is no key does not make the resolver fail:
\* for every defined entity it returns what it would return if the name
\* were an entity without prerequisites, the name itself included, and so
\* exactly the names reachable along the edges of the dictionary.
C12_DanglingTolerated ==
    (op = "get_build_requirements" /\ Defined) =>
        /\ result.status = "ok"
        /\ result = get_build_requirements(Completed(graph), target)
        /\ Range(result.buildings) = ReachedAsBuilding(graph, target)
        /\ Range(result.units) = ReachedAsUnit(graph, target)

C12_Witness ==
    /\ Returned("get_build_requirements")
    /\ target = "B"
    /\ graph["B"].buildings = <<DanglingName, "A">>
    /\ graph["A"].buildings = <<"S">>
    /\ graph["A"].units = <<DanglingName>>
    /\ result.buildings = <<DanglingName, "S", "A">>
    /\ result.units = <<DanglingName>>

(***************************************************************************)
(* get_build_requirements statement by statement.  walk holds the locals   *)
(* of the call and the stack of the nested function's activations: which   *)
(* entity each expands, which of its two lists it is in, the index in the  *)
(* list, and whether it is about to make the recursive call for that       *)
(* element or has come back from it and is about to append.                *)
(***************************************************************************)
\* most edges of a dictionary of SpecWalk
MaxEdges == 3
\* deepest nesting of resolve_dependencies the interpreter allows
MaxDepth == 4

WalkNames == {SynNames[i] : i \in 1..3}

EmptyGraph == [n \in WalkNames |-> [buildings |-> <<>>, units |-> <<>>]]

\* every dictionary over WalkNames with at most k prerequisite entries in all:
\* cycles, self-references, diamonds and repeated entries included
RECURSIVE GraphsUpTo(_)
GraphsUpTo(k) ==
    IF k = 0 THEN {EmptyGraph}
    ELSE LET smaller == GraphsUpTo(k - 1)
         IN  smaller
             \cup {[g EXCEPT ![n].buildings = Append(@, m)] :
                       g \in smaller, n \in WalkNames, m \in WalkNames}
             \cup {[g EXCEPT ![n].units = Append(@, m)] :
                       g \in smaller, n \in WalkNames, m \in WalkNames}

InitWalk ==
    /\ graph \in GraphsUpTo(MaxEdges)
    /\ target \in QueryNames(graph)
    /\ current_buildings = {}
    /\ op = "none"
    /\ result = [status |-> "none"]
    /\ OthersIdle

Top == walk.stack[Len(walk.stack)]

\* the list the top activation is iterating
TopList == graph[Top.name][Top.list]

Activation(name) == [name |-> name, list |-> "buildings", i |-> 1, at |-> "call"]

\* if name in visited that never finds the name
VisitedNever(w, name) == FALSE

\* if name in visited
Visited(w, name) == name \in w.visited

\* lines 213-232 for the name asked about: the test of the name, the fresh
\* locals and the first activation of resolve_dependencies
WalkBegin ==
    /\ walk.pc = "idle"
    /\ IF target \notin DOMAIN graph
       THEN /\ walk' = [walk EXCEPT !.pc = "KeyError"]
            /\ op' = "get_build_requirements"
            /\ result' = KeyError(graph, target)
       ELSE /\ walk' = [pc |-> "running",
                        stack |-> <<Activation(target)>>,
                        visited |-> NewLocals.visited \cup {target},
                        all_buildings |-> NewLocals.all_buildings,
                        all_units |-> NewLocals.all_units,
                        started |-> <<target>>]
            /\ UNCHANGED <<op, result>>
    /\ UNCHANGED <<graph, target, current_buildings, answers, progression, bot, game>>

\* resolve_dependencies(building) or resolve_dependencies(unit): lines 223-232
\* of the activation called
WalkCall ==
    /\ walk.pc = "running" /\ walk.stack # <<>>
    /\ Top.at = "call" /\ Top.i <= Len(TopList)
    /\ LET name == TopList[Top.i]
           back == [walk.stack EXCEPT ![Len(walk.stack)].at = "append"]
       IN  IF Visited(walk, name)
           THEN walk' = [walk EXCEPT !.stack = back]
           ELSE IF name \notin DOMAIN graph
           THEN walk' = [walk EXCEPT !.stack = back, !.visited = @ \cup {name}]
           ELSE IF Len(walk.stack) >= MaxDepth
           THEN walk' = [walk EXCEPT !.pc = "RecursionError"]
           ELSE walk' = [walk EXCEPT !.stack = Append(back, Activation(name)),
                                     !.visited = @ \cup {name},
                                     !.started = Append(@, name)]
    /\ UNCHANGED <<callVars, answers, progression, bot, game>>

\* the append after the recursive call, lines 237-238 and 243-244
WalkAppend ==
    /\ walk.pc = "running" /\ walk.stack # <<>>
    /\ Top.at = "append"
    /\ LET name == TopList[Top.i]
           on == [walk.stack EXCEPT ![Len(walk.stack)].at = "call",
                                    ![Len(walk.stack)].i = @ + 1]
       IN  IF Top.list = "buildings"
           THEN walk' = [walk EXCEPT !.stack = on,
                                     !.all_buildings = AppendIfAbsent(@, name)]
           ELSE walk' = [walk EXCEPT !.stack = on,
                                     !.all_units = AppendIfAbsent(@, name)]
    /\ UNCHANGED <<callVars, answers, progression, bot, game>>

\* the first loop is over: on to the second, line 241
WalkNextList ==
    /\ walk.pc = "running" /\ walk.stack # <<>>
    /\ Top.at = "call" /\ Top.i > Len(TopList) /\ Top.list = "buildings"
    /\ walk' = [walk EXCEPT !.stack[Len(walk.stack)].list = "units",
                            !.stack[Len(walk.stack)].i = 1]
    /\ UNCHANGED <<callVars, answers, progression, bot, game>>

\* the second loop is over: the activation returns
WalkReturn ==
    /\ walk.pc = "running" /\ walk.stack # <<>>
    /\ Top.at = "call" /\ Top.i > Len(TopList) /\ Top.list = "units"
    /\ walk' = [walk EXCEPT !.stack = SubSeq(@, 1, Len(@) - 1)]
    /\ UNCHANGED <<callVars, answers, progression, bot, game>>

\* lines 252-259: the outermost activation has returned
WalkFinish ==
    /\ walk.pc = "running" /\ walk.stack = <<>>
    /\ walk' = [walk EXCEPT !.pc = "done"]
    /\ op' = "get_build_requirements"
    /\ result' = [status    |-> "ok",
                  buildings |-> walk.all_buildings,
                  units     |-> walk.all_units,
                  immediate |-> immediate_requirements(graph, target)]
    /\ UNCHANGED <<graph, target, current_buildings, answers, progression, bot, game>>

NextWalk ==
    \/ WalkBegin
    \/ WalkCall
    \/ WalkAppend
    \/ WalkNextList
    \/ WalkReturn
    \/ WalkFinish

\* the interpreter goes on executing the call until it returns or raises
SpecWalk == InitWalk /\ [][NextWalk]_vars /\ WF_vars(NextWalk)

\* C13: on every dictionary, cyclic ones included, the call for a defined
\* name comes to its return, with the result of get_build_requirements, and
\* on the way no entity's expansion starts twice.
C13_Terminates ==
    /\ Defined => <>(walk.pc = "done")
    /\ [](NoRepeat(walk.started) /\ Len(walk.stack) <= Cardinality(DOMAIN graph))
    /\ [](walk.pc = "done" => result = get_build_requirements(graph, target))

C13_Witness ==
    /\ walk.pc = "done"
    /\ ~Acyclic(graph)
    /\ Len(walk.started) = 3
    /\ target \in Range(result.buildings)
    /\ Len(result.buildings) = 3

(***************************************************************************)
(* The step-by-step progression of the third example: ask for the next     *)
(* building, append it to the buildings, until there is none.              *)
(***************************************************************************)
InitLoop ==
    /\ graph = TERRAN_TECH_TREE
    /\ target \in QueryNames(graph)
    /\ current_buildings \in SUBSET CallerBuildings
    /\ op = "none"
    /\ result = [status |-> "none"]
    /\ answers = NoAnswers
    /\ walk = WalkIdle
    /\ progression = [pc |-> "loop", step |-> 1, start |-> current_buildings,
                      built |-> <<>>]
    /\ bot = BotIdle
    /\ game = GameIdle

\* one turn of "while True", lines 143-151
LoopStep ==
    /\ progression.pc = "loop"
    /\ op' = "get_next_building_to_build"
    /\ result' = get_next_building_to_build(graph, target, current_buildings)
    /\ IF result'.status = "KeyError"
       THEN /\ progression' = [progression EXCEPT !.pc = "KeyError"]
            /\ UNCHANGED current_buildings
       ELSE IF result'.value = None
       THEN /\ progression' = [progression EXCEPT !.pc = "done"]
            /\ UNCHANGED current_buildings
       ELSE /\ current_buildings' = current_buildings \cup {result'.value}
            /\ progression' = [progression EXCEPT !.step = @ + 1,
                                                  !.built = Append(@, result'.value)]
    /\ UNCHANGED <<graph, target, answers, walk, bot, game>>

NextLoop == LoopStep

\* the loop has no wait in it: it runs until it breaks or raises
SpecLoop == InitLoop /\ [][NextLoop]_vars /\ WF_vars(NextLoop)

\* The number of structures the target still lacks, as can_build_unit
\* reports it for the buildings present now.
StillMissing ==
    Len(can_build_unit(graph, target, current_buildings).missing)

\* C14: for a defined target and any starting buildings the loop ends after
\* as many additions as can_build_unit reported missing at the start, with
\* the target buildable; it adds no structure twice, and every structure it
\* adds is new and has all its direct structure prerequisites among the
\* buildings already there.  Ending is stated by its variant: no call of
\* the loop raises, every iteration either adds one structure or, once
\* StillMissing is zero, leaves the loop, and the additions so far plus
\* StillMissing always equal the count reported at the start.
C14_Progression ==
    /\ [](Defined =>
            /\ progression.pc \in {"loop", "done"}
            /\ Len(progression.built) + StillMissing
                   = Len(can_build_unit(graph, target, progression.start).missing))
    /\ [][Defined /\ progression.pc = "loop" =>
            IF StillMissing = 0
            THEN progression'.pc = "done" /\ progression'.built = progression.built
            ELSE /\ progression'.pc = "loop"
                 /\ Len(progression'.built) = Len(progression.built) + 1]_vars
    /\ [](progression.pc = "done" =>
            /\ Len(progression.built)
                   = Len(can_build_unit(graph, target, progression.start).missing)
            /\ progression.step = Len(progression.built) + 1
            /\ can_build_unit(graph, target, current_buildings).can_build
            /\ current_buildings = progression.start \cup Range(progression.built))
    /\ [](NoRepeat(progression.built))
    /\ [][progression'.built # progression.built =>
            LET added == progression'.built[Len(progression'.built)]
            IN  /\ added \notin current_buildings
                /\ Range(graph[added].buildings) \subseteq current_buildings]_vars

C14_Witness ==
    /\ progression.pc = "done"
    /\ target = "Thor"
    /\ progression.start = {"CommandCenter"}
    /\ progression.built =
           <<"SupplyDepot", "Barracks", "Factory", "FactoryTechLab", "Armory">>

-----------------------------------------------------------------------------
\* TankBot (main.py): the three build phases.  The game is outside the
\* program: which structures stand, are under construction or carry a tech
\* lab changes freely between two calls of on_step.

\* the largest supply_left a call of on_step is given
MaxSupplyLeft == 3

\* on_step's mapping from tech tree names to unit type ids
name_to_unit_type ==
    [n \in {"SupplyDepot", "Barracks", "Factory", "FactoryTechLab", "Starport"} |->
        IF n = "SupplyDepot" THEN "SUPPLYDEPOT"
        ELSE IF n = "Barracks" THEN "BARRACKS"
        ELSE IF n = "Factory" THEN "FACTORY"
        ELSE IF n = "FactoryTechLab" THEN "FACTORYTECHLAB"
        ELSE "STARPORT"]

TECHLAB_TYPES == {"BARRACKSTECHLAB", "FACTORYTECHLAB", "STARPORTTECHLAB"}

techlab_to_structure ==
    [t \in TECHLAB_TYPES |->
        IF t = "BARRACKSTECHLAB" THEN "BARRACKS"
        ELSE IF t = "FACTORYTECHLAB" THEN "FACTORY"
        ELSE "STARPORT"]

\* the structure types on_step can ask about
StructureTypes == {"SUPPLYDEPOT", "BARRACKS", "FACTORY", "STARPORT"}

\* the base structures whose tech lab on_step can ask about
TechLabBases ==
    {techlab_to_structure[name_to_unit_type[n]] :
        n \in {m \in DOMAIN name_to_unit_type : name_to_unit_type[m] \in TECHLAB_TYPES}}

\* supply cost of the three army units
calculate_supply_cost ==
    [u \in {"MARINE", "SIEGETANK", "VIKING"} |->
        IF u = "MARINE" THEN 1 ELSE IF u = "SIEGETANK" THEN 3 ELSE 2]

\* what can_afford answers during one call: the set of types it affirms
AffordChoices ==
    { {},
      StructureTypes \cup {"FACTORYTECHLAB"},
      StructureTypes \cup {"FACTORYTECHLAB", "SCV", "MARINE", "SIEGETANK", "VIKING"} }

\* the readings of the game one call of on_step works with; worker_wanted
\* says that a ready, idle townhall has fewer workers than its target.  With
\* the supply cap at 200 no test of the code looks at supply_left, so one
\* value of it stands for all.
StepInputs ==
    {in \in [supply_left : 0..MaxSupplyLeft, cap_below_200 : BOOLEAN,
             affordable : AffordChoices, worker_wanted : BOOLEAN] :
        in.cap_below_200 \/ in.supply_left = 0}

\* behaviours and commands handed to the framework
Behavior(kind, id, production, maximum) ==
    [behavior |-> kind, id |-> id, production |-> production, maximum |-> maximum]

Mining == Behavior("Mining", None, None, 0)

BuildStructure(structure_id, production) ==
    Behavior("BuildStructure", structure_id, production, 0)

TechUp(desired_tech) == Behavior("TechUp", desired_tech, None, 0)

SpawnController(unit_type, maximum) ==
    Behavior("SpawnController", unit_type, None, maximum)

Train(unit_type) == Behavior("train", unit_type, None, 0)

\* the supply depot request shared by the three helpers: made when the depot
\* is affordable and none is under construction
DepotRequest(structures, in) ==
    IF "SUPPLYDEPOT" \in in.affordable /\ "SUPPLYDEPOT" \notin structures.pending
    THEN {BuildStructure("SUPPLYDEPOT", "False")}
    ELSE {}

\* one pass of the loop of _build_required_structures over building_name
CheckStructureTechlabAssumed(building_name, mapping, structures, in, st) ==
    IF building_name \notin DOMAIN mapping THEN st
    ELSE LET unit_type == mapping[building_name]
             depot == IF in.supply_left < 2 /\ in.cap_below_200
                      THEN DepotRequest(structures, in) ELSE {}
             asked == [st EXCEPT !.registered = @ \cup depot]
         IN  IF unit_type \in TECHLAB_TYPES THEN asked
             ELSE IF unit_type \in structures.ready THEN asked
             ELSE [all_ready  |-> FALSE,
                   registered |->
                       asked.registered \cup
                       IF /\ unit_type \notin structures.pending
                          /\ unit_type \in in.affordable
                       THEN {BuildStructure(unit_type,
                                 IF unit_type \in {"BARRACKS", "FACTORY", "STARPORT"}
                                 THEN "True" ELSE "False")}
                       ELSE {}]

CheckStructure(building_name, mapping, structures, in, st) ==
    IF building_name \notin DOMAIN mapping THEN st
    ELSE LET unit_type == mapping[building_name]
             depot == IF in.supply_left < 2 /\ in.cap_below_200
                      THEN DepotRequest(structures, in) ELSE {}
             asked == [st EXCEPT !.registered = @ \cup depot]
         IN  IF unit_type \in TECHLAB_TYPES
             THEN IF techlab_to_structure[unit_type] \in structures.techlab
                  THEN asked
                  ELSE [all_ready  |-> FALSE,
                        registered |->
                            asked.registered \cup
                            IF unit_type \in in.affordable
                            THEN {TechUp(unit_type)} ELSE {}]
             ELSE IF unit_type \in structures.ready THEN asked
             ELSE [all_ready  |-> FALSE,
                   registered |->
                       asked.registered \cup
                       IF /\ unit_type \notin structures.pending
                          /\ unit_type \in in.affordable
                       THEN {BuildStructure(unit_type,
                                 IF unit_type \in {"BARRACKS", "FACTORY", "STARPORT"}
                                 THEN "True" ELSE "False")}
                       ELSE {}]

RECURSIVE CheckLoop(_, _, _, _, _, _)
CheckLoop(required_buildings, i, mapping, structures, in, st) ==
    IF i > Len(required_buildings) THEN st
    ELSE CheckLoop(required_buildings, i + 1, mapping, structures, in,
                   CheckStructure(required_buildings[i], mapping, structures, in, st))

\* _build_required_structures: the returned all_ready and the behaviours
\* registered on the way
build_required_structures(build_order, mapping, structures, in) ==
    CheckLoop(build_order.buildings, 1, mapping, structures, in,
              [all_ready |-> TRUE, registered |-> {}])

\* build_workers: what it registers or commands
build_workers(structures, in) ==
    IF ~in.worker_wanted THEN {}
    ELSE IF in.supply_left < 1 /\ in.cap_below_200
    THEN DepotRequest(structures, in)
    ELSE IF "SCV" \in in.affordable
    THEN {Train("SCV")}
    ELSE {}

\* build_units: what it registers
build_units(unit_type, num_units, structures, in) ==
    IF in.supply_left < calculate_supply_cost[unit_type] /\ in.cap_below_200
    THEN DepotRequest(structures, in)
    ELSE IF unit_type \notin in.affordable THEN {}
    ELSE {SpawnController(unit_type, num_units)}

\* the if / elif / elif chain of on_step: the bot's fields after it and the
\* behaviours registered by the one check it makes
AdvancePhase(b, structures, in) ==
    IF b.current_build_phase = "marines"
    THEN LET checked == build_required_structures(b.marine_build_order,
                            name_to_unit_type, structures, in)
         IN  [bot |-> IF checked.all_ready
                      THEN [b EXCEPT !.marines_ready = TRUE,
                                     !.current_build_phase = "tanks"]
                      ELSE b,
              registered |-> checked.registered]
    ELSE IF b.current_build_phase = "tanks"
    THEN LET checked == build_required_structures(b.siege_tank_build_order,
                            name_to_unit_type, structures, in)
         IN  [bot |-> IF checked.all_ready
                      THEN [b EXCEPT !.tanks_ready = TRUE,
                                     !.current_build_phase = "vikings"]
                      ELSE b,
              registered |-> checked.registered]
    ELSE IF b.current_build_phase = "vikings"
    THEN LET checked == build_required_structures(b.viking_build_order,
                            name_to_unit_type, structures, in)
         IN  [bot |-> IF checked.all_ready
                      THEN [b EXCEPT !.vikings_ready = TRUE,
                                     !.current_build_phase = "complete"]
                      ELSE b,
              registered |-> checked.registered]
    ELSE [bot |-> b, registered |-> {}]

\* TankBot.__init__, before any structure of the bot stands
InitBot ==
    /\ graph = TERRAN_TECH_TREE
    /\ target = "Marine"
    /\ current_buildings = {}
    /\ op = "none"
    /\ result = [status |-> "none"]
    /\ answers = NoAnswers
    /\ walk = WalkIdle
    /\ progression = ProgressionIdle
    /\ bot = [marine_build_order     |-> get_build_requirements(graph, "Marine"),
              siege_tank_build_order |-> get_build_requirements(graph, "SiegeTank"),
              viking_build_order     |-> get_build_requirements(graph, "Viking"),
              current_build_phase    |-> "marines",
              marines_ready          |-> FALSE,
              tanks_ready            |-> FALSE,
              vikings_ready          |-> FALSE,
              registered             |-> {}]
    /\ game = [ready |-> {}, pending |-> {}, techlab |-> {}]

on_step ==
    /\ \E in \in StepInputs :
          LET workers == build_workers(game, in)
              phase   == AdvancePhase(bot, game, in)
              after   == phase.bot
              units   ==
                  (IF after.marines_ready
                   THEN build_units("MARINE", 10, game, in) ELSE {})
                  \cup (IF after.tanks_ready
                        THEN build_units("SIEGETANK", 5, game, in) ELSE {})
                  \cup (IF after.vikings_ready
                        THEN build_units("VIKING", 3, game, in) ELSE {})
          IN  bot' = [after EXCEPT !.registered =
                          {Mining} \cup workers \cup phase.registered \cup units]
    /\ UNCHANGED <<callVars, answers, walk, progression, game>>

\* the game between two calls of on_step.  A structure is started as the
\* bot asks for one: a supply depot while none is under construction, any
\* other structure while none of its type exists.
StructureStarted ==
    /\ \E t \in StructureTypes \ game.pending :
          /\ t = "SUPPLYDEPOT" \/ t \notin game.ready
          /\ game' = [game EXCEPT !.pending = @ \cup {t}]
    /\ UNCHANGED <<callVars, answers, walk, progression, bot>>

StructureCompleted ==
    /\ \E t \in game.pending :
          game' = [game EXCEPT !.pending = @ \ {t}, !.ready = @ \cup {t}]
    /\ UNCHANGED <<callVars, answers, walk, progression, bot>>

TechLabAttached ==
    /\ \E t \in (TechLabBases \cap game.ready) \ game.techlab :
          game' = [game EXCEPT !.techlab = @ \cup {t}]
    /\ UNCHANGED <<callVars, answers, walk, progression, bot>>

StructureDestroyed ==
    /\ \E t \in game.ready :
          game' = [game EXCEPT !.ready = @ \ {t}, !.techlab = @ \ {t}]
    /\ UNCHANGED <<callVars, answers, walk, progression, bot>>

NextBot ==
    \/ on_step
    \/ StructureStarted
    \/ StructureCompleted
    \/ TechLabAttached
    \/ StructureDestroyed

SpecBot == InitBot /\ [][NextBot]_vars

PhaseRank(phase) ==
    IF phase = "marines" THEN 1
    ELSE IF phase = "tanks" THEN 2
    ELSE IF phase = "vikings" THEN 3
    ELSE IF phase = "complete" THEN 4
    ELSE 0

\* the build order on_step checks in the given phase
BuildOrderOf(phase) ==
    IF phase = "marines" THEN bot.marine_build_order
    ELSE IF phase = "tanks" THEN bot.siege_tank_build_order
    ELSE bot.viking_build_order

\* every mapped structure of the order stands ready, a tech lab as a ready
\* base structure carrying one
StructuresReady(build_order) ==
    \A n \in Range(build_order.buildings) \cap DOMAIN name_to_unit_type :
        LET unit_type == name_to_unit_type[n]
        IN  IF unit_type \in TECHLAB_TYPES
            THEN techlab_to_structure[unit_type] \in game.techlab
            ELSE unit_type \in game.ready

\* C15: the phase only moves marines -> tanks -> vikings -> complete, one
\* phase per call of on_step, only when every mapped structure of the
\* current phase's build order is ready, and never back; marines_ready,
\* tanks_ready and vikings_ready hold exactly when the phase is past
\* marines, tanks and vikings, and no step resets them.
C15_PhasesAdvance ==
    /\ [](/\ PhaseRank(bot.current_build_phase) \in 1..4
          /\ bot.marines_ready <=> PhaseRank(bot.current_build_phase) > 1
          /\ bot.tanks_ready   <=> PhaseRank(bot.current_build_phase) > 2
          /\ bot.vikings_ready <=> PhaseRank(bot.current_build_phase) > 3)
    /\ [][bot'.current_build_phase # bot.current_build_phase =>
            /\ PhaseRank(bot'.current_build_phase)
                   = PhaseRank(bot.current_build_phase) + 1
            /\ game' = game
            /\ StructuresReady(BuildOrderOf(bot.current_build_phase))]_vars
    /\ [][/\ PhaseRank(bot'.current_build_phase)
                 >= PhaseRank(bot.current_build_phase)
          /\ bot.marines_ready => bot'.marines_ready
          /\ bot.tanks_ready => bot'.tanks_ready
          /\ bot.vikings_ready => bot'.vikings_ready]_vars

\* all three phases done, the flags still set although the barracks and the
\* factory no longer stand
C15_Witness ==
    /\ bot.current_build_phase = "complete"
    /\ bot.marines_ready /\ bot.tanks_ready /\ bot.vikings_ready
    /\ "BARRACKS" \notin game.ready
    /\ "FACTORY" \notin game.ready
    /\ SpawnController("MARINE", 10) \in bot.registered

====
